---- MODULE Spec2Model ----
(***************************************************************************)
(* Limit order book, matching engine and settlement of the exchanges       *)
(* crate: OrderBook (orderbook.rs), MatchingEngine (matching.rs), Market   *)
(* (market.rs), AccountManager (account_manager.rs), Exchange              *)
(* (exchange.rs).  Every public Exchange operation is one action.          *)
(***************************************************************************)
EXTENDS Integers, Sequences, FiniteSets, TLC

\* ------------------------------------------------------------------ bounds
\* Width of the unsigned machine word the model uses in place of u64.
WordBits == 7
\* Highest price a caller submits or names in a cancel.
MaxPrice == 2
\* Highest quantity a caller submits (0 is a legal u64 quantity too).
MaxQty == 2
\* Number of orders one run hands to a bare MatchingEngine (ids 1..MaxOrders).
MaxOrders == 3
\* Number of orders one run posts to the Exchange (ids 1..MaxPosts).
MaxPosts == 2
\* Number of distinct order ids handed to a bare OrderBook (ids may repeat).
MaxBookIds == 2
\* The amount of one add_balance / remove_balance call from outside.
MaxAmount == 4
\* Number of add_balance / remove_balance calls from outside in one run.
MaxDeposits == 2

U64_MAX == 2^WordBits - 1

\* A price whose product with a quantity above 1 does not fit the word.
HugePrice == 2^(WordBits - 1)
\* The prices of the orders of a run that looks at overflow.
WidePrices == {1, HugePrice}

Sides == {"Bid", "Ask"}
AccountIds == {"ann", "bob"}
USD == "USD"
BTC == "BTC"
Assets == {USD, BTC}
\* The pair of bin/exchange_burst.rs.
ThePair == [numeraire |-> USD, base |-> BTC]
Pairs == {ThePair}
Prices == 1..MaxPrice
Quantities == 0..MaxQty
Amounts == {MaxAmount}
\* The quantities of the orders handed to a bare OrderBook: orderbook.rs never
\* reads a quantity, it only stores it.
BookQuantities == 1..MaxQty

\* Option<T>: None is the empty sequence, Some(x) the sequence of x alone.
None == <<>>

Some(x) == <<x>>

VARIABLES
    markets,    \* Exchange.markets: Pair -> Market (its matching engine's book)
    accounts,   \* AccountManager.accounts: AccountId -> (Asset -> Quantity)
    engine,     \* the book of a MatchingEngine driven without an Exchange
    nextId,     \* the next order id the caller uses (ids are caller-unique)
    nCalls,     \* add_balance / remove_balance calls made so far
    pc,         \* "ready", "hung" once a call never returns, "panicked"
    fills,      \* per order the engine was handed: price, quantity, the quantity
                \* traded so far, and the sides of the cancel_order calls that
                \* paid a refund for it
    last        \* the last call: its arguments, result and the state before it

vars == <<markets, accounts, engine, nextId, nCalls, pc, fills, last>>

\* ------------------------------------------------------- scalar arithmetic
Min(a, b) == IF a <= b THEN a ELSE b

MinOf(S) == CHOOSE x \in S : \A y \in S : x <= y

\* u64 multiplication of quantity and price (release build: wraps).
Mul64(a, b) == (a * b) % (U64_MAX + 1)

\* Quantity + Quantity.
QuantityAdd(a, b) == (a + b) % (U64_MAX + 1)

\* Quantity - Quantity (only called with b <= a).
QuantitySub(a, b) == (a - b) % (U64_MAX + 1)

\* NegatedPrice::new(price: u64): the bid ladder's key of a price.
NegatedPriceNew(p) == U64_MAX - p

\* NegatedPrice::from_price(price: Price).
FromPrice(p) == U64_MAX - p

\* NegatedPrice::to_price(): the original price of a bid ladder key.
ToPrice(k) == U64_MAX - k

\* ------------------------------------------------------------- order book
\* OrderBook::new: both ladders empty.  A ladder is a function from its
\* keys (a BTreeMap iterates them ascending) to the queue of the level.
EmptyLadder == [k \in {} |-> <<>>]

EmptyBook == [bids |-> EmptyLadder, asks |-> EmptyLadder]

\* A mutation of PushAt: the order goes to the head of the queue.
PushAtFront(ladder, key, order) ==
    IF key \in DOMAIN ladder
    THEN [ladder EXCEPT ![key] = <<order>> \o @]
    ELSE [k \in (DOMAIN ladder) \cup {key} |->
            IF k = key THEN <<order>> ELSE ladder[k]]

\* map.entry(key).or_insert_with(Vec::new).push(order)
PushAt(ladder, key, order) ==
    IF key \in DOMAIN ladder
    THEN [ladder EXCEPT ![key] = Append(@, order)]
    ELSE [k \in (DOMAIN ladder) \cup {key} |->
            IF k = key THEN <<order>> ELSE ladder[k]]

\* OrderBook::insert_order
insert_order(book, order) ==
    IF order.side = "Bid"
    THEN LET negated_price == NegatedPriceNew(order.price)
             bid_order == [order EXCEPT !.price = ToPrice(negated_price)]
         IN [book EXCEPT !.bids = PushAt(book.bids, negated_price, bid_order)]
    ELSE [book EXCEPT !.asks = PushAt(book.asks, order.price, order)]

\* A mutation of Position: the last order of the queue with the id.
PositionLast(orders, order_id) ==
    IF \E i \in 1..Len(orders) : orders[i].id = order_id
    THEN CHOOSE i \in 1..Len(orders) :
           /\ orders[i].id = order_id
           /\ \A j \in (i + 1)..Len(orders) : orders[j].id # order_id
    ELSE 0

\* orders.iter().position(|o| o.id == order_id): 0 when there is none.
Position(orders, order_id) ==
    IF \E i \in 1..Len(orders) : orders[i].id = order_id
    THEN MinOf({i \in 1..Len(orders) : orders[i].id = order_id})
    ELSE 0

\* Vec::remove(pos)
RemoveAt(orders, pos) ==
    SubSeq(orders, 1, pos - 1) \o SubSeq(orders, pos + 1, Len(orders))

\* A mutation of DropKey: the key stays in the map.
KeepKey(ladder, key) == ladder

\* BTreeMap::remove(key)
DropKey(ladder, key) == [k \in (DOMAIN ladder) \ {key} |-> ladder[k]]

\* A mutation of RemoveFound: the order is returned and stays in its queue.
FoundNotRemoved(book, side, key, pos) ==
    [book |-> book,
     order |-> Some((IF side = "Bid" THEN book.bids[key] ELSE book.asks[key])[pos])]

\* The tail of OrderBook::remove_order once the level queue `orders` under
\* `key` of the ladder of `side` is found: the order at pos leaves the queue,
\* and an emptied level is removed under the key of the removed order.
RemoveFound(book, side, key, pos) ==
    LET orders == IF side = "Bid" THEN book.bids[key] ELSE book.asks[key]
        order == orders[pos]
        rest == RemoveAt(orders, pos)
        kept == IF side = "Bid"
                THEN [book EXCEPT !.bids[key] = rest]
                ELSE [book EXCEPT !.asks[key] = rest]
    IN [book |-> IF rest # <<>> THEN kept
                 ELSE IF order.side = "Bid"
                      THEN [kept EXCEPT !.bids = DropKey(@, FromPrice(order.price))]
                      ELSE [kept EXCEPT !.asks = DropKey(@, order.price)],
        order |-> Some(order)]

\* OrderBook::remove_order: [book, order], order = None when nothing is removed.
remove_order(book, order_id, side, price) ==
    LET key == IF side = "Bid" THEN FromPrice(price) ELSE price
        ladder == IF side = "Bid" THEN book.bids ELSE book.asks
    IN IF key \notin DOMAIN ladder
       THEN [book |-> book, order |-> None]
       ELSE LET pos == Position(ladder[key], order_id)
            IN IF pos = 0
               THEN [book |-> book, order |-> None]
               ELSE RemoveFound(book, side, key, pos)

\* The loop of OrderBook::update_order_quantity over one ladder: the first
\* level (ascending keys) that holds the id gets its first such order rewritten.
UpdateInLadder(ladder, order_id, new_qty) ==
    LET hit == {k \in DOMAIN ladder : Position(ladder[k], order_id) # 0}
    IN IF hit = {}
       THEN ladder
       ELSE LET k == MinOf(hit)
                pos == Position(ladder[k], order_id)
            IN [ladder EXCEPT ![k][pos].quantity = new_qty]

\* The keys of a BTreeMap in the order its iterator yields them: ascending.
RECURSIVE KeysAscending(_)
KeysAscending(keys) ==
    IF keys = {} THEN <<>>
    ELSE <<MinOf(keys)>> \o KeysAscending(keys \ {MinOf(keys)})

\* OrderBook::get_bids: the (key, orders) pairs of self.bids.iter().
get_bids(book) ==
    LET ks == KeysAscending(DOMAIN book.bids)
    IN [i \in 1..Len(ks) |-> [key |-> ks[i], orders |-> book.bids[ks[i]]]]

\* OrderBook::get_asks
get_asks(book) ==
    LET ks == KeysAscending(DOMAIN book.asks)
    IN [i \in 1..Len(ks) |-> [key |-> ks[i], orders |-> book.asks[ks[i]]]]

\* A mutation of update_order_quantity: the resting quantity is left as it was.
KeepQuantity(book, order_id, side, new_qty) == book

\* OrderBook::update_order_quantity
update_order_quantity(book, order_id, side, new_qty) ==
    IF side = "Bid"
    THEN [book EXCEPT !.bids = UpdateInLadder(book.bids, order_id, new_qty)]
    ELSE [book EXCEPT !.asks = UpdateInLadder(book.asks, order_id, new_qty)]

\* A mutation of get_best_bid: the first key of the bid ladder as it is stored.
GetBestBidKey(book) ==
    IF DOMAIN book.bids = {} THEN None ELSE Some(MinOf(DOMAIN book.bids))

\* OrderBook::get_best_bid: the original price of the first bid key.
get_best_bid(book) ==
    IF DOMAIN book.bids = {} THEN None ELSE Some(ToPrice(MinOf(DOMAIN book.bids)))

\* OrderBook::get_best_ask
get_best_ask(book) ==
    IF DOMAIN book.asks = {} THEN None ELSE Some(MinOf(DOMAIN book.asks))

\* --------------------------------------------------------- matching engine
\* A mutation of TradeOfBid: the trade carries the incoming bid's limit price.
TradeOfBidAtTakerPrice(bid, ask, ask_price, match_qty) ==
    [ask_order_id |-> ask.id, bid_order_id |-> bid.id,
     ask_account_id |-> ask.account_id, bid_account_id |-> bid.account_id,
     price |-> bid.price, quantity |-> match_qty]

\* The Trade pushed by find_bid_matches: the incoming bid against a resting ask.
TradeOfBid(bid, ask, ask_price, match_qty) ==
    [ask_order_id |-> ask.id, bid_order_id |-> bid.id,
     ask_account_id |-> ask.account_id, bid_account_id |-> bid.account_id,
     price |-> ask_price, quantity |-> match_qty]

\* The Trade pushed by find_ask_matches: the incoming ask against a resting
\* bid; bid_price is the key of the bid level, the trade carries to_price of it.
TradeOfAsk(ask, bid, bid_price, match_qty) ==
    [ask_order_id |-> ask.id, bid_order_id |-> bid.id,
     ask_account_id |-> ask.account_id, bid_account_id |-> bid.account_id,
     price |-> ToPrice(bid_price), quantity |-> match_qty]

\* The OrderUpdate recorded for a resting order matched for match_qty.
UpdateOf(resting, match_qty) ==
    IF resting.quantity = match_qty
    THEN [id |-> resting.id, kind |-> "Remove", qty |-> 0]
    ELSE [id |-> resting.id, kind |-> "Update", qty |-> resting.quantity - match_qty]

\* The for loop over the orders of the best level, from index i on: st holds
\* remaining_qty, trades and updates.  key is the level's key in its ladder.
RECURSIVE ForLevel(_, _, _, _, _)
ForLevel(orders, i, key, taker, st) ==
    IF i > Len(orders)
    THEN st
    ELSE LET resting == orders[i]
             match_qty == Min(st.remaining, resting.quantity)
             trade == IF taker.side = "Bid"
                      THEN TradeOfBid(taker, resting, key, match_qty)
                      ELSE TradeOfAsk(taker, resting, key, match_qty)
             st1 == IF match_qty > 0
                    THEN [st EXCEPT !.remaining = @ - match_qty,
                                    !.trades = Append(@, trade),
                                    !.updates = Append(@, UpdateOf(resting, match_qty))]
                    ELSE st
         IN IF st1.remaining = 0
            THEN st1
            ELSE ForLevel(orders, i + 1, key, taker, st1)

\* A mutation of BestAskFor: the first ask level whatever its price.
FirstAskLevel(book, bid) ==
    IF DOMAIN book.asks # {} THEN Some(MinOf(DOMAIN book.asks)) ELSE None

\* The ask level find_bid_matches matches against: the first one, when its
\* price is at most the bid's; None otherwise.
BestAskFor(book, bid) ==
    IF DOMAIN book.asks # {} /\ MinOf(DOMAIN book.asks) <= bid.price
    THEN Some(MinOf(DOMAIN book.asks))
    ELSE None

\* The bid level find_ask_matches matches against: the first key of the bid
\* ladder, when its original price is at least the ask's; None otherwise.
BestBidFor(book, ask) ==
    IF DOMAIN book.bids # {} /\ ToPrice(MinOf(DOMAIN book.bids)) >= ask.price
    THEN Some(MinOf(DOMAIN book.bids))
    ELSE None

\* The while loop of find_bid_matches / find_ask_matches.  The book is not
\* changed while matches are collected, so every pass sees the same best level.
\* A pass that leaves remaining_qty as it was is repeated for ever: diverges.
RECURSIVE WhileRemaining(_, _, _)
WhileRemaining(book, taker, st) ==
    IF st.remaining = 0
    THEN st
    ELSE LET best == IF taker.side = "Bid"
                     THEN BestAskFor(book, taker)
                     ELSE BestBidFor(book, taker)
         IN IF best = None
            THEN st
            ELSE LET key == best[1]
                     orders == IF taker.side = "Bid"
                               THEN book.asks[key]
                               ELSE book.bids[key]
                     st1 == ForLevel(orders, 1, key, taker, st)
                 IN IF st1.remaining = st.remaining
                    THEN [st EXCEPT !.diverges = TRUE]
                    ELSE WhileRemaining(book, taker, st1)

NoMatches(order) ==
    [remaining |-> order.quantity, trades |-> <<>>, updates |-> <<>>,
     diverges |-> FALSE]

\* MatchingEngine::find_bid_matches: trades, updates and the bid's remaining
\* quantity.
find_bid_matches(book, bid) == WhileRemaining(book, bid, NoMatches(bid))

\* MatchingEngine::find_ask_matches
find_ask_matches(book, ask) == WhileRemaining(book, ask, NoMatches(ask))

\* The loop of process_bid / process_ask over the collected updates; side is
\* the resting side, price the price of the incoming order.
RECURSIVE ApplyUpdates(_, _, _, _)
ApplyUpdates(book, updates, side, price) ==
    IF updates = <<>>
    THEN book
    ELSE LET u == Head(updates)
             book1 == IF u.kind = "Remove"
                      THEN remove_order(book, u.id, side, price).book
                      ELSE update_order_quantity(book, u.id, side, u.qty)
         IN ApplyUpdates(book1, Tail(updates), side, price)

\* MatchingEngine::process_bid: [book, trades, returns]; returns is FALSE
\* when the matching loop never ends.
process_bid(book, order) ==
    LET m == find_bid_matches(book, order)
        bid == [order EXCEPT !.quantity = m.remaining]
    IN IF m.diverges
       THEN [book |-> book, trades |-> <<>>, returns |-> FALSE]
       ELSE [book |-> IF m.trades # <<>>
                      THEN ApplyUpdates(book, m.updates, "Ask", bid.price)
                      ELSE insert_order(book, bid),
             trades |-> m.trades, returns |-> TRUE]

\* MatchingEngine::process_ask
process_ask(book, order) ==
    LET m == find_ask_matches(book, order)
        ask == [order EXCEPT !.quantity = m.remaining]
    IN IF m.diverges
       THEN [book |-> book, trades |-> <<>>, returns |-> FALSE]
       ELSE [book |-> IF m.trades # <<>>
                      THEN ApplyUpdates(book, m.updates, "Bid", ask.price)
                      ELSE insert_order(book, ask),
             trades |-> m.trades, returns |-> TRUE]

\* MatchingEngine::process_order (Market::process_order forwards to it).
process_order(book, order) ==
    IF order.side = "Bid" THEN process_bid(book, order) ELSE process_ask(book, order)

\* MatchingEngine::cancel_order (Market::cancel_order forwards to it).
engine_cancel_order(book, order_id, side, price) ==
    remove_order(book, order_id, side, price)

\* ------------------------------------------------------------------ ledger
\* HashMap::insert(k, v), and entry(k).or_insert(v) on a map without k.
SetEntry(f, k, v) == [x \in (DOMAIN f) \cup {k} |-> IF x = k THEN v ELSE f[x]]

\* Account::new: no balances.
NewAccount == [a \in {} |-> 0]

\* AccountManager::new / Exchange::new
NoAccounts == [a \in {} |-> NewAccount]

NoMarkets == [p \in {} |-> EmptyBook]

\* AccountManager::add_balance (Exchange::add_balance forwards to it).
add_balance(accts, account_id, asset, amount) ==
    LET account == IF account_id \in DOMAIN accts THEN accts[account_id] ELSE NewAccount
        balance == IF asset \in DOMAIN account THEN account[asset] ELSE 0
    IN SetEntry(accts, account_id,
                SetEntry(account, asset, QuantityAdd(balance, amount)))

\* A mutation of remove_balance: the balance is not compared with the amount.
RemoveBalanceUnchecked(accts, account_id, asset, amount) ==
    IF account_id \notin DOMAIN accts
    THEN [accounts |-> accts, result |-> "AccountNotFound"]
    ELSE LET account == accts[account_id]
             balance == IF asset \in DOMAIN account THEN account[asset] ELSE 0
         IN [accounts |-> SetEntry(accts, account_id,
                                   SetEntry(account, asset, QuantitySub(balance, amount))),
             result |-> "Ok"]

\* AccountManager::remove_balance (Exchange::remove_balance forwards to it):
\* [accounts, result].
remove_balance(accts, account_id, asset, amount) ==
    IF account_id \notin DOMAIN accts
    THEN [accounts |-> accts, result |-> "AccountNotFound"]
    ELSE LET account == accts[account_id]
             balance == IF asset \in DOMAIN account THEN account[asset] ELSE 0
             entered == SetEntry(account, asset, balance)
         IN IF balance < amount
            THEN [accounts |-> SetEntry(accts, account_id, entered),
                  result |-> "InsufficientBalance"]
            ELSE [accounts |-> SetEntry(accts, account_id,
                                  SetEntry(entered, asset, QuantitySub(balance, amount))),
                  result |-> "Ok"]

\* AccountManager::get_balance (Exchange::get_balance forwards to it):
\* [result, value].  balances.get(&asset).unwrap() panics when the account
\* holds no entry for the asset.
get_balance(accts, account_id, asset) ==
    IF account_id \notin DOMAIN accts
    THEN [result |-> "AccountNotFound", value |-> None]
    ELSE IF asset \notin DOMAIN accts[account_id]
         THEN [result |-> "Panic", value |-> None]
         ELSE [result |-> "Ok", value |-> Some(accts[account_id][asset])]

\* ---------------------------------------------------------------- exchange
\* self.markets.entry(pair).or_insert(Market::new(pair))
EntryOrInsert(mkts, pair) ==
    IF pair \in DOMAIN mkts THEN mkts ELSE SetEntry(mkts, pair, EmptyBook)

\* The amount and asset post_order reserves for an order.
ReservedAsset(order, pair) == IF order.side = "Bid" THEN pair.numeraire ELSE pair.base

ReservedAmount(order) ==
    IF order.side = "Bid" THEN Mul64(order.quantity, order.price) ELSE order.quantity

\* A mutation of CreditTrades: only the bid side's base is credited.
RECURSIVE CreditBaseOnly(_, _, _)
CreditBaseOnly(accts, trades, pair) ==
    IF trades = <<>>
    THEN accts
    ELSE CreditBaseOnly(add_balance(accts, Head(trades).bid_account_id, pair.base,
                                    Head(trades).quantity),
                        Tail(trades), pair)

\* The loop of post_order over the trades: the ask side receives numeraire,
\* the bid side receives base.
RECURSIVE CreditTrades(_, _, _)
CreditTrades(accts, trades, pair) ==
    IF trades = <<>>
    THEN accts
    ELSE LET trade == Head(trades)
             a1 == add_balance(accts, trade.ask_account_id, pair.numeraire,
                               Mul64(trade.quantity, trade.price))
             a2 == add_balance(a1, trade.bid_account_id, pair.base, trade.quantity)
         IN CreditTrades(a2, Tail(trades), pair)

\* Exchange::post_order: [markets, accounts, result, trades]; result is "Hang"
\* when the matching engine never returns.
post_order(mkts, accts, order, pair) ==
    LET debit == remove_balance(accts, order.account_id,
                                ReservedAsset(order, pair), ReservedAmount(order))
    IN IF debit.result # "Ok"
       THEN [markets |-> mkts, accounts |-> debit.accounts,
             result |-> debit.result, trades |-> <<>>]
       ELSE LET mkts1 == EntryOrInsert(mkts, pair)
                done == process_order(mkts1[pair], order)
            IN IF ~done.returns
               THEN [markets |-> mkts1, accounts |-> debit.accounts,
                     result |-> "Hang", trades |-> <<>>]
               ELSE [markets |-> [mkts1 EXCEPT ![pair] = done.book],
                     accounts |-> CreditTrades(debit.accounts, done.trades, pair),
                     result |-> "Ok", trades |-> done.trades]

\* The loop of post_order over the trades in a build with overflow checks:
\* trade.quantity * trade.price panics when it does not fit the word, the
\* credits of the trades before it having been made.  [accounts, panicked].
RECURSIVE CreditTradesChecked(_, _, _)
CreditTradesChecked(accts, trades, pair) ==
    IF trades = <<>>
    THEN [accounts |-> accts, panicked |-> FALSE]
    ELSE LET trade == Head(trades)
         IN IF trade.quantity * trade.price > U64_MAX
            THEN [accounts |-> accts, panicked |-> TRUE]
            ELSE LET a1 == add_balance(accts, trade.ask_account_id, pair.numeraire,
                                       trade.quantity * trade.price)
                     a2 == add_balance(a1, trade.bid_account_id, pair.base,
                                       trade.quantity)
                 IN CreditTradesChecked(a2, Tail(trades), pair)

\* Exchange::post_order in a build with overflow checks (the debug profile):
\* as post_order, except that a product that does not fit the word panics.
post_order_checked(mkts, accts, order, pair) ==
    LET debit == remove_balance(accts, order.account_id,
                                ReservedAsset(order, pair), ReservedAmount(order))
        mkts1 == EntryOrInsert(mkts, pair)
        done == process_order(mkts1[pair], order)
        credit == CreditTradesChecked(debit.accounts, done.trades, pair)
    IN IF order.side = "Bid" /\ order.quantity * order.price > U64_MAX
       THEN [markets |-> mkts, accounts |-> accts, result |-> "Panic",
             trades |-> <<>>]
       ELSE IF debit.result # "Ok"
       THEN [markets |-> mkts, accounts |-> debit.accounts,
             result |-> debit.result, trades |-> <<>>]
       ELSE IF ~done.returns
       THEN [markets |-> mkts1, accounts |-> debit.accounts,
             result |-> "Hang", trades |-> <<>>]
       ELSE [markets |-> [mkts1 EXCEPT ![pair] = done.book],
             accounts |-> credit.accounts,
             result |-> IF credit.panicked THEN "Panic" ELSE "Ok",
             trades |-> done.trades]

\* A mutation of RefundAmount: a cancelled bid is refunded its quantity.
RefundQuantityOnly(order, side) == order.quantity

\* The amount cancel_order credits for the removed order.
RefundAmount(order, side) ==
    IF side = "Bid" THEN Mul64(order.quantity, order.price) ELSE order.quantity

\* Exchange::cancel_order: [markets, accounts, result, removed].
cancel_order(mkts, accts, order_id, price, side, pair) ==
    LET mkts1 == EntryOrInsert(mkts, pair)
        r == engine_cancel_order(mkts1[pair], order_id, side, price)
    IN IF r.order # None
       THEN LET order == r.order[1]
            IN [markets |-> [mkts1 EXCEPT ![pair] = r.book],
                accounts |-> add_balance(accts, order.account_id,
                                         IF side = "Bid" THEN pair.numeraire
                                                         ELSE pair.base,
                                         RefundAmount(order, side)),
                result |-> "Ok", removed |-> r.order]
       ELSE [markets |-> mkts1, accounts |-> accts,
             result |-> "OrderNotFound", removed |-> None]

\* ----------------------------------------------------------------- actions
\* The trades process_order returned, entered in the record of fills: every
\* trade adds its quantity to the ask order and to the bid order it names.
RECURSIVE AddFills(_, _)
AddFills(f, trades) ==
    IF trades = <<>>
    THEN f
    ELSE LET t == Head(trades)
             hit == {t.ask_order_id, t.bid_order_id} \cap DOMAIN f
         IN AddFills([id \in DOMAIN f |->
                        IF id \in hit
                        THEN [f[id] EXCEPT !.filled = @ + t.quantity]
                        ELSE f[id]],
                     Tail(trades))

\* The record of fills after process_order(order) has returned trades.
RecordFills(f, order, trades) ==
    AddFills(SetEntry(f, order.id,
                      [price |-> order.price, quantity |-> order.quantity,
                       filled |-> 0, refunds |-> <<>>]),
             trades)

\* What the last call was; pre is the state before it.  undo is set by a
\* cancel_order that directly follows the post_order of the order it names:
\* it is then that order and the exchange before that post_order.
Call(op, args, result, trades) ==
    [op |-> op, args |-> args, result |-> result, trades |-> trades,
     pre |-> [markets |-> markets, accounts |-> accounts, engine |-> engine],
     undo |-> None]

\* Whether the call before cancel_order(order_id, price, side, pair) was the
\* successful post_order of that very order to that pair.
CancelsLastPost(order_id, price, side, pair) ==
    /\ last.op = "post_order"
    /\ last.result = "Ok"
    /\ last.args.pair = pair
    /\ last.args.order.id = order_id
    /\ last.args.order.price = price
    /\ last.args.order.side = side

Init ==
    /\ markets = NoMarkets
    /\ accounts = NoAccounts
    /\ engine = EmptyBook
    /\ nextId = 1
    /\ nCalls = 0
    /\ pc = "ready"
    /\ fills = [id \in {} |-> [price |-> 0, quantity |-> 0, filled |-> 0,
                               refunds |-> <<>>]]
    /\ last = [op |-> "new", args |-> <<>>, result |-> "Ok", trades |-> <<>>,
               pre |-> [markets |-> NoMarkets, accounts |-> NoAccounts,
                        engine |-> EmptyBook],
               undo |-> None]

\* Exchange::add_market
AddMarket ==
    /\ pc = "ready"
    /\ \E pair \in Pairs :
         /\ markets' = SetEntry(markets, pair, EmptyBook)
         /\ last' = Call("add_market", pair, "Ok", <<>>)
    /\ UNCHANGED <<accounts, engine, nextId, nCalls, pc, fills>>

\* Exchange::add_balance, called from outside
AddBalance ==
    /\ pc = "ready"
    /\ nCalls < MaxDeposits
    /\ \E account_id \in AccountIds, asset \in Assets, amount \in Amounts :
         /\ accounts' = add_balance(accounts, account_id, asset, amount)
         /\ last' = Call("add_balance",
                         [account_id |-> account_id, asset |-> asset, amount |-> amount],
                         "Ok", <<>>)
    /\ nCalls' = nCalls + 1
    /\ UNCHANGED <<markets, engine, nextId, pc, fills>>

\* Exchange::remove_balance, called from outside
RemoveBalance ==
    /\ pc = "ready"
    /\ nCalls < MaxDeposits
    /\ \E account_id \in AccountIds, asset \in Assets, amount \in Amounts :
         \E r \in {remove_balance(accounts, account_id, asset, amount)} :
            /\ accounts' = r.accounts
            /\ last' = Call("remove_balance",
                            [account_id |-> account_id, asset |-> asset, amount |-> amount],
                            r.result, <<>>)
    /\ nCalls' = nCalls + 1
    /\ UNCHANGED <<markets, engine, nextId, pc, fills>>

\* Exchange::post_order of a new order of the caller's
PostOrder ==
    /\ pc = "ready"
    /\ nextId <= MaxPosts
    /\ \E side \in Sides, price \in Prices, quantity \in Quantities,
          account_id \in AccountIds, pair \in Pairs :
         \E order \in {[id |-> nextId, price |-> price, quantity |-> quantity,
                        side |-> side, account_id |-> account_id,
                        timestamp |-> nextId]} :
          \E r \in {post_order(markets, accounts, order, pair)} :
            /\ markets' = r.markets
            /\ accounts' = r.accounts
            /\ pc' = IF r.result = "Hang" THEN "hung" ELSE "ready"
            /\ fills' = IF r.result = "Ok"
                        THEN RecordFills(fills, order, r.trades)
                        ELSE fills
            /\ last' = Call("post_order", [order |-> order, pair |-> pair],
                            r.result, r.trades)
    /\ nextId' = nextId + 1
    /\ UNCHANGED <<engine, nCalls>>

\* Exchange::cancel_order
CancelOrder ==
    /\ pc = "ready"
    /\ \E order_id \in 1..(nextId - 1), price \in Prices, side \in Sides, pair \in Pairs :
         \E r \in {cancel_order(markets, accounts, order_id, price, side, pair)} :
            /\ markets' = r.markets
            /\ accounts' = r.accounts
            /\ last' = [Call("cancel_order",
                             [order_id |-> order_id, price |-> price, side |-> side,
                              pair |-> pair, removed |-> r.removed],
                             r.result, <<>>)
                        EXCEPT !.undo = IF CancelsLastPost(order_id, price, side, pair)
                                        THEN Some([order |-> last.args.order,
                                                   markets |-> last.pre.markets,
                                                   accounts |-> last.pre.accounts])
                                        ELSE None]
            /\ fills' = IF r.result = "Ok" /\ order_id \in DOMAIN fills
                        THEN [fills EXCEPT ![order_id].refunds = Append(@, side)]
                        ELSE fills
    /\ UNCHANGED <<engine, nextId, nCalls, pc>>

\* Exchange::get_balance; a panic ends the program.
GetBalance ==
    /\ pc = "ready"
    /\ \E account_id \in AccountIds, asset \in Assets :
         \E r \in {get_balance(accounts, account_id, asset)} :
            /\ pc' = IF r.result = "Panic" THEN "panicked" ELSE "ready"
            /\ last' = Call("get_balance",
                            [account_id |-> account_id, asset |-> asset,
                             value |-> r.value],
                            r.result, <<>>)
    /\ UNCHANGED <<markets, accounts, engine, nextId, nCalls, fills>>

Next ==
    \/ AddMarket
    \/ AddBalance
    \/ RemoveBalance
    \/ GetBalance
    \/ PostOrder
    \/ CancelOrder

\* The Exchange under any sequence of its public calls.
Spec == Init /\ [][Next]_vars

\* Exchange::post_order of a new order whose price may be huge, in a build
\* with overflow checks (panic) or without them (wrap).
PostWide ==
    /\ pc = "ready"
    /\ nextId <= MaxPosts
    /\ \E overflow_checks \in BOOLEAN, side \in Sides, price \in WidePrices,
          quantity \in Quantities, account_id \in AccountIds, pair \in Pairs :
         \E order \in {[id |-> nextId, price |-> price, quantity |-> quantity,
                        side |-> side, account_id |-> account_id,
                        timestamp |-> nextId]} :
           \E r \in {IF overflow_checks
                      THEN post_order_checked(markets, accounts, order, pair)
                      ELSE post_order(markets, accounts, order, pair)} :
             /\ markets' = r.markets
             /\ accounts' = r.accounts
             /\ pc' = CASE r.result = "Hang" -> "hung"
                        [] r.result = "Panic" -> "panicked"
                        [] OTHER -> "ready"
             /\ fills' = IF r.result = "Ok"
                         THEN RecordFills(fills, order, r.trades)
                         ELSE fills
             /\ last' = Call("post_order", [order |-> order, pair |-> pair],
                             r.result, r.trades)
    /\ nextId' = nextId + 1
    /\ UNCHANGED <<engine, nCalls>>

WideNext == AddBalance \/ PostWide

\* The Exchange funded and then posted orders of small and of huge prices.
SpecWide == Init /\ [][WideNext]_vars

\* MatchingEngine::process_order of a new order, on a bare engine
\* (bin/matching_engine_burst.rs).
ProcessOrder ==
    /\ pc = "ready"
    /\ nextId <= MaxOrders
    /\ \E side \in Sides, price \in Prices, quantity \in Quantities,
          account_id \in AccountIds :
         \E order \in {[id |-> nextId, price |-> price, quantity |-> quantity,
                        side |-> side, account_id |-> account_id,
                        timestamp |-> nextId]} :
          \E r \in {process_order(engine, order)} :
            /\ engine' = r.book
            /\ pc' = IF r.returns THEN "ready" ELSE "hung"
            /\ fills' = IF r.returns
                        THEN RecordFills(fills, order, r.trades)
                        ELSE fills
            /\ last' = Call("process_order", [order |-> order],
                            IF r.returns THEN "Ok" ELSE "Hang", r.trades)
    /\ nextId' = nextId + 1
    /\ UNCHANGED <<markets, accounts, nCalls>>

\* MatchingEngine::cancel_order on a bare engine
EngineCancel ==
    /\ pc = "ready"
    /\ \E order_id \in 1..(nextId - 1), price \in Prices, side \in Sides :
         \E r \in {engine_cancel_order(engine, order_id, side, price)} :
            /\ engine' = r.book
            /\ last' = Call("engine_cancel_order",
                            [order_id |-> order_id, price |-> price, side |-> side,
                             removed |-> r.order],
                            IF r.order = None THEN "None" ELSE "Some", <<>>)
    /\ UNCHANGED <<markets, accounts, nextId, nCalls, pc, fills>>

EngineNext == ProcessOrder \/ EngineCancel

\* A MatchingEngine alone under any sequence of process_order and cancel_order.
SpecEngine == Init /\ [][EngineNext]_vars

\* OrderBook::insert_order on a bare book; the caller chooses the id.
InsertOrder ==
    /\ pc = "ready"
    /\ nextId <= MaxOrders
    /\ \E id \in 1..MaxBookIds, side \in Sides, price \in Prices,
          quantity \in BookQuantities :
         LET order == [id |-> id, price |-> price, quantity |-> quantity,
                       side |-> side, account_id |-> "ann", timestamp |-> nextId]
         IN /\ engine' = insert_order(engine, order)
            /\ last' = Call("insert_order", [order |-> order], "Ok", <<>>)
    /\ nextId' = nextId + 1
    /\ UNCHANGED <<markets, accounts, nCalls, pc, fills>>

\* OrderBook::remove_order on a bare book
RemoveOrder ==
    /\ pc = "ready"
    /\ \E order_id \in 1..MaxBookIds, side \in Sides, price \in Prices :
         \E r \in {remove_order(engine, order_id, side, price)} :
            /\ engine' = r.book
            /\ last' = Call("remove_order",
                            [order_id |-> order_id, side |-> side, price |-> price,
                             removed |-> r.order],
                            IF r.order = None THEN "None" ELSE "Some", <<>>)
    /\ UNCHANGED <<markets, accounts, nextId, nCalls, pc, fills>>

\* OrderBook::update_order_quantity on a bare book
UpdateOrderQuantity ==
    /\ pc = "ready"
    /\ \E order_id \in 1..MaxBookIds, side \in Sides, new_qty \in BookQuantities :
         /\ engine' = update_order_quantity(engine, order_id, side, new_qty)
         /\ last' = Call("update_order_quantity",
                         [order_id |-> order_id, side |-> side, new_qty |-> new_qty],
                         "Ok", <<>>)
    /\ UNCHANGED <<markets, accounts, nextId, nCalls, pc, fills>>

BookNext == InsertOrder \/ RemoveOrder \/ UpdateOrderQuantity

\* An OrderBook alone under any sequence of its three mutating calls; the
\* matching engine changes its book through these three calls only.
SpecBook == Init /\ [][BookNext]_vars

\* ------------------------------------------------- what the claims speak of
\* The resting orders of a ladder.
LadderOrders(ladder) ==
    UNION {{ladder[k][i] : i \in 1..Len(ladder[k])} : k \in DOMAIN ladder}

RECURSIVE QuantityOf(_)
QuantityOf(orders) ==
    IF orders = {} THEN 0
    ELSE LET o == CHOOSE x \in orders : TRUE
         IN o.quantity + QuantityOf(orders \ {o})

RECURSIVE NotionalOf(_)
NotionalOf(orders) ==
    IF orders = {} THEN 0
    ELSE LET o == CHOOSE x \in orders : TRUE
         IN o.quantity * o.price + NotionalOf(orders \ {o})

\* The book of a pair; a pair without a market holds no order.
BookOf(mkts, pair) == IF pair \in DOMAIN mkts THEN mkts[pair] ELSE EmptyBook

BalanceOf(accts, account_id, asset) ==
    IF account_id \in DOMAIN accts /\ asset \in DOMAIN accts[account_id]
    THEN accts[account_id][asset]
    ELSE 0

RECURSIVE TotalBalance(_, _, _)
TotalBalance(accts, ids, asset) ==
    IF ids = {} THEN 0
    ELSE LET a == CHOOSE x \in ids : TRUE
         IN BalanceOf(accts, a, asset) + TotalBalance(accts, ids \ {a}, asset)

\* What the resting orders of a pair's book hold of an asset: bids their
\* notional of the numeraire, asks their quantity of the base.
ReservedIn(mkts, pair, asset) ==
    (IF pair.numeraire = asset
     THEN NotionalOf(LadderOrders(BookOf(mkts, pair).bids)) ELSE 0)
    + (IF pair.base = asset
       THEN QuantityOf(LadderOrders(BookOf(mkts, pair).asks)) ELSE 0)

\* All of an asset the exchange holds: balances plus reservations.
Held(mkts, accts, asset) ==
    TotalBalance(accts, AccountIds, asset) + ReservedIn(mkts, ThePair, asset)

\* The last call was a completed process_order (bare engine) or a post_order
\* that reached the engine and returned.
Matched ==
    /\ last.op \in {"process_order", "post_order"}
    /\ last.result = "Ok"

Taker == last.args.order

\* The book the last call's order was matched against, and the book after it.
BookBefore ==
    IF last.op = "post_order"
    THEN BookOf(last.pre.markets, last.args.pair)
    ELSE last.pre.engine

BookAfter ==
    IF last.op = "post_order" THEN BookOf(markets, last.args.pair) ELSE engine

\* The orders resting opposite the taker before the call.
Opposing == LadderOrders(IF Taker.side = "Bid" THEN BookBefore.asks ELSE BookBefore.bids)

\* The taker's own side of the book after the call.
OwnSideAfter == LadderOrders(IF Taker.side = "Bid" THEN BookAfter.bids ELSE BookAfter.asks)

\* r's price is one the taker's limit price accepts.
Crosses(r) ==
    IF Taker.side = "Bid" THEN r.price <= Taker.price ELSE r.price >= Taker.price

\* Price p is better for the taker than price q.
Better(p, q) == IF Taker.side = "Bid" THEN p < q ELSE p > q

\* The id of the resting order a trade of the last call names.
RestingId(trade) ==
    IF Taker.side = "Bid" THEN trade.ask_order_id ELSE trade.bid_order_id

\* The quantity the first n trades of the last call take from resting order id.
RECURSIVE TradedWith(_, _)
TradedWith(n, id) ==
    IF n = 0 THEN 0
    ELSE TradedWith(n - 1, id)
         + (IF RestingId(last.trades[n]) = id THEN last.trades[n].quantity ELSE 0)

TradedTotal(id) == TradedWith(Len(last.trades), id)

RECURSIVE TradedUpTo(_)
TradedUpTo(n) ==
    IF n = 0 THEN 0 ELSE TradedUpTo(n - 1) + last.trades[n].quantity

\* The resting order (before the call) a trade names.
RestingOf(trade) == CHOOSE r \in Opposing : r.id = RestingId(trade)

\* ------------------------------------------------------------------ claims
\* C1: over post_order and cancel_order calls the numeraire held (balances
\* plus the notional of resting bids) and the base held (balances plus the
\* quantity of resting asks) stay what they were before the call.
C1_Conservation ==
    (last.op \in {"post_order", "cancel_order"} /\ last.result # "Hang")
    => \A asset \in Assets :
         Held(markets, accounts, asset)
         = Held(last.pre.markets, last.pre.accounts, asset)

\* C2: every trade of a call is against the best opposing level that still
\* holds unconsumed quantity: nothing better is left unconsumed, and the
\* level traded against is not one the call's earlier trades have exhausted.
C2_PricePriority ==
    Matched =>
      \A i \in 1..Len(last.trades) :
        LET r == RestingOf(last.trades[i])
        IN /\ Crosses(r)
           /\ \A x \in Opposing :
                Better(x.price, r.price) => x.quantity - TradedWith(i - 1, x.id) <= 0
           /\ \E x \in Opposing :
                /\ x.price = r.price
                /\ x.quantity - TradedWith(i - 1, x.id) > 0

\* The marketable liquidity the taker met: the quantity resting opposite at
\* prices its limit accepts.
Marketable == QuantityOf({r \in Opposing : Crosses(r)})

\* C3: an order of quantity Q meeting marketable liquidity M, 0 < M < Q, trades
\* M in all and rests on its own side at its own price with quantity Q - M.
C3_ResidualRests ==
    (Matched /\ 0 < Marketable /\ Marketable < Taker.quantity)
    => /\ TradedUpTo(Len(last.trades)) = Marketable
       /\ \E o \in OwnSideAfter :
            /\ o.id = Taker.id
            /\ o.price = Taker.price
            /\ o.quantity = Taker.quantity - Marketable

\* C4: a resting order matched for its whole remaining quantity is off the
\* book after the call, whatever the incoming order's limit price.
C4_FilledOrderLeaves ==
    Matched =>
      \A r \in Opposing :
        (r.quantity > 0 /\ TradedTotal(r.id) >= r.quantity)
        => \A o \in LadderOrders(BookAfter.bids) \cup LadderOrders(BookAfter.asks) :
             o.id # r.id

\* The numeraire the first n trades of the last call cost the bidder: quantity
\* times the trade's price, less what the bidder receives as their ask side.
RECURSIVE NumeraireDue(_)
NumeraireDue(n) ==
    IF n = 0 THEN 0
    ELSE NumeraireDue(n - 1)
         + (IF last.trades[n].ask_account_id = Taker.account_id
            THEN 0
            ELSE last.trades[n].quantity * last.trades[n].price)

\* C5: a bid filled in full has cost the bidder the quantity times the resting
\* prices P*, the difference to its limit price P having been credited back.
C5_Rebate ==
    (/\ last.op = "post_order"
     /\ last.result = "Ok"
     /\ Taker.side = "Bid"
     /\ last.trades # <<>>
     /\ TradedUpTo(Len(last.trades)) = Taker.quantity)
    => BalanceOf(accounts, Taker.account_id, last.args.pair.numeraire)
       = BalanceOf(last.pre.accounts, Taker.account_id, last.args.pair.numeraire)
         - NumeraireDue(Len(last.trades))

\* C6: between calls, a book with both sides non-empty has its best bid
\* strictly below its best ask.
C6_NonCrossed ==
    pc = "ready" =>
      \A book \in {engine} \cup {markets[p] : p \in DOMAIN markets} :
        (get_best_bid(book) # None /\ get_best_ask(book) # None)
        => get_best_bid(book)[1] < get_best_ask(book)[1]

\* The price of the level a resting order of the book before the call is on.
LevelPriceOf(r) ==
    IF Taker.side = "Bid"
    THEN CHOOSE k \in DOMAIN BookBefore.asks :
           \E i \in 1..Len(BookBefore.asks[k]) : BookBefore.asks[k][i] = r
    ELSE U64_MAX - (CHOOSE k \in DOMAIN BookBefore.bids :
                      \E i \in 1..Len(BookBefore.bids[k]) : BookBefore.bids[k][i] = r)

\* C7: every trade names an order that rested opposite the incoming order and
\* carries that order's price, the price of the level it rested on.
C7_MakerPrice ==
    Matched =>
      \A i \in 1..Len(last.trades) :
        /\ \E r \in Opposing : r.id = RestingId(last.trades[i])
        /\ last.trades[i].price = RestingOf(last.trades[i]).price
        /\ last.trades[i].price = LevelPriceOf(RestingOf(last.trades[i]))

\* A bid has traded at a price that is not its own limit price.
C7_Witness ==
    /\ Matched
    /\ Taker.side = "Bid"
    /\ \E i \in 1..Len(last.trades) : last.trades[i].price # Taker.price

\* C8: of two orders resting at one price, a (inserted first: the lower id)
\* and b, a trade names b only after the trades before it have consumed a's
\* whole quantity, and only when the incoming quantity exceeds a's.
C8_Fifo ==
    Matched =>
      \A a \in Opposing, b \in Opposing :
        (a.price = b.price /\ a.id < b.id)
        => \A i \in 1..Len(last.trades) :
             RestingId(last.trades[i]) = b.id
             => /\ TradedWith(i - 1, a.id) >= a.quantity
                /\ Taker.quantity > a.quantity

\* A trade names the later of two orders of one level, the earlier one
\* holding quantity.
C8_Witness ==
    /\ Matched
    /\ \E a \in Opposing, b \in Opposing :
         /\ a.price = b.price
         /\ a.id < b.id
         /\ a.quantity > 0
         /\ \E i \in 1..Len(last.trades) : RestingId(last.trades[i]) = b.id

\* C9: a post_order that fails at reservation leaves the whole ledger and
\* every book as they were before the call.
C9_Atomicity ==
    (last.op = "post_order" /\ last.result \in {"AccountNotFound", "InsufficientBalance"})
    => /\ accounts = last.pre.accounts
       /\ markets = last.pre.markets

\* The last call cancelled, with the same id, side, price and pair, the order
\* of positive quantity the call before it had posted and which no resting
\* order's price crossed.
RoundTrip ==
    /\ last.op = "cancel_order"
    /\ last.undo # None
    /\ last.undo[1].order.quantity > 0
    /\ LET o == last.undo[1].order
           book == BookOf(last.undo[1].markets, last.args.pair)
       IN IF o.side = "Bid"
          THEN \A r \in LadderOrders(book.asks) : r.price > o.price
          ELSE \A r \in LadderOrders(book.bids) : r.price < o.price

\* C10: such a cancel succeeds, gives the submitter back every balance as it
\* was before the post_order, and leaves the pair's book as it was before it.
C10_RoundTrip ==
    RoundTrip
    => /\ last.result = "Ok"
       /\ accounts[last.undo[1].order.account_id]
          = last.undo[1].accounts[last.undo[1].order.account_id]
       /\ BookOf(markets, last.args.pair)
          = BookOf(last.undo[1].markets, last.args.pair)

\* A bid at a price above 1 posted onto a book that holds orders, then
\* cancelled.
C10_Witness ==
    /\ RoundTrip
    /\ last.undo[1].order.side = "Bid"
    /\ last.undo[1].order.price > 1
    /\ BookOf(last.undo[1].markets, last.args.pair) # EmptyBook

\* The last call cancelled an order that trades had named for some, not all,
\* of its original quantity.
CancelledPartlyFilled ==
    /\ last.op = "cancel_order"
    /\ last.result = "Ok"
    /\ last.args.order_id \in DOMAIN fills
    /\ 0 < fills[last.args.order_id].filled
    /\ fills[last.args.order_id].filled < fills[last.args.order_id].quantity

\* What such a cancel owes the owner: the quantity not traded, times the
\* order's original price for a bid.
RemainingRefund ==
    LET f == fills[last.args.order_id]
    IN IF last.args.side = "Bid"
       THEN (f.quantity - f.filled) * f.price
       ELSE f.quantity - f.filled

RefundAsset ==
    IF last.args.side = "Bid" THEN last.args.pair.numeraire ELSE last.args.pair.base

\* C11: cancelling a partially filled resting order takes it off the book and
\* credits its owner the remaining quantity times the original price in
\* numeraire (bid) or the remaining quantity in base (ask), and nothing else.
C11_PartialRefund ==
    CancelledPartlyFilled
    => LET owner == last.args.removed[1].account_id
       IN /\ \A o \in LadderOrders(BookOf(markets, last.args.pair).bids)
                     \cup LadderOrders(BookOf(markets, last.args.pair).asks) :
                o.id # last.args.order_id
          /\ \A a \in AccountIds, asset \in Assets :
                BalanceOf(accounts, a, asset)
                = BalanceOf(last.pre.accounts, a, asset)
                  + (IF a = owner /\ asset = RefundAsset THEN RemainingRefund ELSE 0)

\* A bid at a price above 1, partly filled, has been cancelled.
C11_Witness ==
    /\ CancelledPartlyFilled
    /\ last.args.side = "Bid"
    /\ last.args.price > 1

\* Every balance of the ledger is what it was before the last call.
BalancesUnchanged ==
    \A a \in AccountIds, asset \in Assets :
      BalanceOf(accounts, a, asset) = BalanceOf(last.pre.accounts, a, asset)

\* Every order resting on a book.
Resting(book) == LadderOrders(book.bids) \cup LadderOrders(book.asks)

\* C12: a post_order for a pair without a registered market fails, creates no
\* market for the pair, debits nothing and rests no order.
C12_FailFast ==
    (last.op = "post_order" /\ last.args.pair \notin DOMAIN last.pre.markets)
    => /\ last.result # "Ok"
       /\ last.args.pair \notin DOMAIN markets
       /\ BalancesUnchanged
       /\ Resting(BookOf(markets, last.args.pair)) = {}

\* C13: a cancel_order that finds no such order returns an error, credits no
\* account, changes no book and registers no market.
C13_FailedCancel ==
    (last.op = "cancel_order" /\ last.args.removed = None)
    => /\ last.result = "OrderNotFound"
       /\ accounts = last.pre.accounts
       /\ \A p \in DOMAIN last.pre.markets :
             p \in DOMAIN markets /\ markets[p] = last.pre.markets[p]
       /\ DOMAIN markets = DOMAIN last.pre.markets

\* The balance the last call's debit was made against, and its amount.
DebitedBefore ==
    IF last.op = "remove_balance"
    THEN BalanceOf(last.pre.accounts, last.args.account_id, last.args.asset)
    ELSE BalanceOf(last.pre.accounts, Taker.account_id,
                   IF Taker.side = "Bid" THEN last.args.pair.numeraire
                                         ELSE last.args.pair.base)

DebitAmount ==
    IF last.op = "remove_balance"
    THEN last.args.amount
    ELSE IF Taker.side = "Bid" THEN Taker.quantity * Taker.price ELSE Taker.quantity

\* C14: every balance is at least 0; a debit (remove_balance, or the
\* reservation of post_order) of more than the balance fails and subtracts
\* nothing, and a remove_balance that succeeds subtracts exactly the amount.
C14_NonNegative ==
    /\ \A a \in DOMAIN accounts : \A asset \in DOMAIN accounts[a] :
          accounts[a][asset] >= 0
    /\ (last.op \in {"remove_balance", "post_order"} /\ DebitAmount > DebitedBefore)
       => (last.result \in {"InsufficientBalance", "AccountNotFound"}
           /\ BalancesUnchanged)
    /\ (last.op = "remove_balance" /\ last.result = "Ok")
       => \A a \in AccountIds, asset \in Assets :
            BalanceOf(accounts, a, asset)
            = BalanceOf(last.pre.accounts, a, asset)
              - (IF a = last.args.account_id /\ asset = last.args.asset
                 THEN last.args.amount ELSE 0)

\* A remove_balance of more than a positive balance has failed.
C14_Witness ==
    /\ last.op = "remove_balance"
    /\ last.result = "InsufficientBalance"
    /\ DebitedBefore > 0

\* C15: get_balance of an existing account for an asset it holds no entry of
\* returns 0, without failing or aborting, and leaves the ledger as it was.
C15_UnheldReadsZero ==
    (/\ last.op = "get_balance"
     /\ last.args.account_id \in DOMAIN last.pre.accounts
     /\ last.args.asset \notin DOMAIN last.pre.accounts[last.args.account_id])
    => /\ last.result = "Ok"
       /\ last.args.value = Some(0)
       /\ pc = "ready"
       /\ accounts = last.pre.accounts

\* What the first n trades of the last call owe an account in an asset: the
\* ask account price x quantity of numeraire, the bid account quantity of base.
RECURSIVE CreditsDue(_, _, _)
CreditsDue(n, a, asset) ==
    IF n = 0 THEN 0
    ELSE LET t == last.trades[n]
         IN CreditsDue(n - 1, a, asset)
            + (IF a = t.ask_account_id /\ asset = last.args.pair.numeraire
               THEN t.price * t.quantity ELSE 0)
            + (IF a = t.bid_account_id /\ asset = last.args.pair.base
               THEN t.quantity ELSE 0)

\* C16: a post_order that returns leaves every balance at its value before,
\* less the reservation of the submitter, plus exactly the credits its trades
\* are due.
C16_PostTradeCredit ==
    (last.op = "post_order" /\ last.result = "Ok")
    => \A a \in AccountIds, asset \in Assets :
         BalanceOf(accounts, a, asset)
         = BalanceOf(last.pre.accounts, a, asset)
           - (IF a = Taker.account_id
                 /\ asset = (IF Taker.side = "Bid" THEN last.args.pair.numeraire
                                                   ELSE last.args.pair.base)
              THEN DebitAmount ELSE 0)
           + CreditsDue(Len(last.trades), a, asset)

\* A post_order has returned a trade between two accounts at a price above 1.
C16_Witness ==
    /\ last.op = "post_order"
    /\ last.result = "Ok"
    /\ \E i \in 1..Len(last.trades) :
         /\ last.trades[i].ask_account_id # last.trades[i].bid_account_id
         /\ last.trades[i].price > 1

\* The price an order was submitted with.
OriginalPrice(o) == fills[o.id].price

C18_NoOverfill ==
    Matched
    => /\ \A r \in Opposing : TradedTotal(r.id) <= r.quantity
       /\ TradedUpTo(Len(last.trades)) <= Marketable

\* C19: process_order returns: no call is left running for ever.
C19_Terminates == pc # "hung"

\* C20: every order resting on a book has a quantity above 0.
C20_PositiveResting ==
    \A book \in {engine} \cup {markets[p] : p \in DOMAIN markets} :
      \A o \in Resting(book) : o.quantity > 0

\* C21: every key of the bid and of the ask ladder of every book maps to a
\* non-empty queue; a remove_order that takes the last order of a level takes
\* the level's key with it.
C21_NoEmptyLevel ==
    \A book \in {engine} \cup {markets[p] : p \in DOMAIN markets} :
      /\ \A k \in DOMAIN book.bids : book.bids[k] # <<>>
      /\ \A k \in DOMAIN book.asks : book.asks[k] # <<>>

\* The ladder key remove_order looks a price up under.
KeyOf(side, price) == IF side = "Bid" THEN U64_MAX - price ELSE price

\* The ladder of a side of a book.
LadderOf(book, side) == IF side = "Bid" THEN book.bids ELSE book.asks

\* The queue of a level, empty when the ladder has no such key.
QueueAt(ladder, key) == IF key \in DOMAIN ladder THEN ladder[key] ELSE <<>>

\* remove_order has taken the only order of a level of a side that holds
\* another level.
C21_Witness ==
    /\ last.op = "remove_order"
    /\ last.args.removed # None
    /\ Len(QueueAt(LadderOf(last.pre.engine, last.args.side),
                   KeyOf(last.args.side, last.args.price))) = 1
    /\ DOMAIN LadderOf(engine, last.args.side) # {}

\* The queue remove_order searched, before the last call and after it.
QueueBefore ==
    QueueAt(LadderOf(last.pre.engine, last.args.side),
            KeyOf(last.args.side, last.args.price))

QueueAfter ==
    QueueAt(LadderOf(engine, last.args.side), KeyOf(last.args.side, last.args.price))

\* The indices of the searched queue that held the id.
Holders == {i \in 1..Len(QueueBefore) : QueueBefore[i].id = last.args.order_id}

\* C24: remove_order(id, side, price) returns None and leaves the book as it
\* was when the level at that side and price does not exist or holds no order
\* with the id; otherwise it returns the first order with the id in that
\* queue, which leaves the queue, every other order of the queue keeping its
\* place relative to the others and its fields, and every other level of
\* both sides staying as it was.
C24_RemovalFrame ==
    last.op = "remove_order"
    => IF Holders = {}
       THEN last.args.removed = None /\ engine = last.pre.engine
       ELSE LET pos == CHOOSE i \in Holders : \A j \in Holders : i <= j
                side == last.args.side
                other == IF side = "Bid" THEN "Ask" ELSE "Bid"
                key == KeyOf(side, last.args.price)
            IN /\ last.args.removed = Some(QueueBefore[pos])
               /\ Len(QueueAfter) = Len(QueueBefore) - 1
               /\ \A i \in 1..Len(QueueAfter) :
                     QueueAfter[i] = QueueBefore[IF i < pos THEN i ELSE i + 1]
               /\ LadderOf(engine, other) = LadderOf(last.pre.engine, other)
               /\ \A k \in (DOMAIN LadderOf(engine, side)
                             \cup DOMAIN LadderOf(last.pre.engine, side)) \ {key} :
                     /\ k \in DOMAIN LadderOf(engine, side)
                     /\ k \in DOMAIN LadderOf(last.pre.engine, side)
                     /\ LadderOf(engine, side)[k] = LadderOf(last.pre.engine, side)[k]

\* remove_order has taken the first of two orders with one id out of a queue
\* of three.
C24_Witness ==
    /\ last.op = "remove_order"
    /\ last.args.removed # None
    /\ Len(QueueBefore) = 3
    /\ Cardinality(Holders) = 2

\* The numeraire the first n trades of the last call are worth.
RECURSIVE TradedNotional(_)
TradedNotional(n) ==
    IF n = 0 THEN 0
    ELSE TradedNotional(n - 1) + last.trades[n].quantity * last.trades[n].price

\* C22: the trades of a call sum to at most the incoming order's submitted
\* quantity, and the reservation of post_order (quantity x price for a bid,
\* quantity for an ask) is at least what the trades take from the submitter.
C22_TakerFillBound ==
    Matched
    => /\ TradedUpTo(Len(last.trades)) <= Taker.quantity
       /\ Taker.side = "Bid"
          => TradedNotional(Len(last.trades)) <= Taker.quantity * Taker.price

\* A bid posted above the resting ask's price has been filled in full.
C22_Witness ==
    /\ last.op = "post_order"
    /\ last.result = "Ok"
    /\ Taker.side = "Bid"
    /\ TradedUpTo(Len(last.trades)) = Taker.quantity
    /\ \E i \in 1..Len(last.trades) : last.trades[i].price < Taker.price

\* The order the last cancel_order names had been refunded before that call.
RefundedBefore ==
    /\ last.args.order_id \in DOMAIN fills
    /\ Len(fills[last.args.order_id].refunds)
       - (IF last.result = "Ok" THEN 1 ELSE 0) >= 1

\* C23: for every order cancel_order pays a refund at most once; a
\* cancel_order naming an order already refunded returns OrderNotFound and
\* changes no balance.
C23_SingleRefund ==
    /\ \A id \in DOMAIN fills : Len(fills[id].refunds) <= 1
    /\ (last.op = "cancel_order" /\ RefundedBefore)
       => (last.result = "OrderNotFound" /\ BalancesUnchanged)

\* A second cancel_order with the id, side and price of an order of positive
\* quantity that was refunded before has returned.
C23_Witness ==
    /\ last.op = "cancel_order"
    /\ last.result = "OrderNotFound"
    /\ last.args.order_id \in DOMAIN fills
    /\ Len(fills[last.args.order_id].refunds) = 1
    /\ fills[last.args.order_id].quantity > 0
    /\ last.args.side = fills[last.args.order_id].refunds[1]
    /\ last.args.price = fills[last.args.order_id].price

\* The last call handed the matching engine an order with quantity to fill.
ReachedEngine ==
    /\ last.op \in {"process_order", "post_order"}
    /\ last.result \in {"Ok", "Hang"}
    /\ Taker.quantity > 0

\* The queue of the best opposing level of the book before the call, when
\* the taker's limit price accepts that level's price; empty otherwise.
BestMarketableQueue ==
    IF Taker.side = "Bid"
    THEN IF DOMAIN BookBefore.asks # {}
            /\ MinOf(DOMAIN BookBefore.asks) <= Taker.price
         THEN BookBefore.asks[MinOf(DOMAIN BookBefore.asks)]
         ELSE <<>>
    ELSE IF DOMAIN BookBefore.bids # {}
            /\ U64_MAX - MinOf(DOMAIN BookBefore.bids) >= Taker.price
         THEN BookBefore.bids[MinOf(DOMAIN BookBefore.bids)]
         ELSE <<>>

\* The head of that queue is an order of the taker's own account.
OwnOrderAtHead ==
    /\ ReachedEngine
    /\ BestMarketableQueue # <<>>
    /\ BestMarketableQueue[1].account_id = Taker.account_id

\* C25: an incoming order whose own account's order is the head of the best
\* marketable opposing level is matched against it: the call returns, and its
\* first trade names that order, with equal ask and bid account.
C25_SelfTrade ==
    OwnOrderAtHead
    => /\ last.result = "Ok"
       /\ last.trades # <<>>
       /\ RestingId(last.trades[1]) = BestMarketableQueue[1].id
       /\ last.trades[1].ask_account_id = last.trades[1].bid_account_id

\* C26: a bid whose price x quantity does not fit the word is either rejected
\* with no change of the ledger and of the markets, or has the exact product
\* reserved; the wrapped product is never reserved.
C26_NoWrappedReservation ==
    (/\ last.op = "post_order"
     /\ Taker.side = "Bid"
     /\ Taker.quantity * Taker.price > U64_MAX)
    => \/ /\ last.result # "Ok"
          /\ BalancesUnchanged
          /\ markets = last.pre.markets
       \/ /\ last.result = "Ok"
          /\ last.trades = <<>>
          /\ BalanceOf(accounts, Taker.account_id, last.args.pair.numeraire)
             = BalanceOf(last.pre.accounts, Taker.account_id,
                         last.args.pair.numeraire)
               - Taker.quantity * Taker.price

\* C27: add_market for a pair that has a market leaves that market's book as
\* it was: every order resting before the call rests after it.
C27_MarketKept ==
    (last.op = "add_market" /\ last.args \in DOMAIN last.pre.markets)
    => /\ last.args \in DOMAIN markets
       /\ Resting(last.pre.markets[last.args]) \subseteq Resting(markets[last.args])
       /\ markets[last.args] = last.pre.markets[last.args]

====
